---- MODULE Spec2Model ----
(***************************************************************************)
(* Task execution lifecycle of personal-Q: the task rows, the Celery job   *)
(* queue, the worker running execute_agent_task, and the API handlers      *)
(* create_task, update_task and cancel_task.                               *)
(*                                                                         *)
(* Every process works on its own SQLAlchemy session.  A session keeps the *)
(* row it loaded; a commit writes back exactly the columns whose value     *)
(* differs from the loaded one (UPDATE tasks SET <changed> WHERE id = ?).  *)
(* cancel_task selects the row WITH FOR UPDATE, so its select..commit      *)
(* section is one step; the worker takes no lock, so each of its           *)
(* statements is a step of its own.                                        *)
(*                                                                         *)
(* The real-time layer: websocket_endpoint runs once per connection in the *)
(* API process; the ConnectionManager is a module global, so the API       *)
(* process and the Celery worker process each hold an instance of their    *)
(* own.  A coroutine runs without interruption between two awaits, so a    *)
(* handler step reaches from one suspension point to the next.             *)
(***************************************************************************)
EXTENDS Integers, FiniteSets, Sequences, TLC

\* ---------------------------------------------------------------- bounds
MaxTasks == 1
MaxWorkers == 1
MaxRequests == 2
MaxDeliveries == 2
MaxTime == 2
MaxUpdates == 1
MaxConns == 2
MaxFrames == 4
MaxBroadcasts == 1
MaxOverlaps == 1

TaskIds == 1..MaxTasks
Workers == 1..MaxWorkers
Requests == 1..MaxRequests
Conns == 1..MaxConns

\* ------------------------------------------------------------- constants
\* TaskStatus
PENDING == "pending"
RUNNING == "running"
COMPLETED == "completed"
FAILED == "failed"
CANCELLED == "cancelled"
TaskStatus == {PENDING, RUNNING, COMPLETED, FAILED, CANCELLED}

\* a nullable column holding no value
NULL == 0

\* a JSON column holding no value
NoData == "none"

\* a Text column holding no value
NoText == "null"

\* an Integer column holding no value; 0 is a number of seconds
NoSeconds == -1

\* error texts: the one of the agent-missing path, what a failure result of
\* the engine says (a sentence without path, address or credential), what
\* str(e) of a raised exception says (it names a file path and a line), and
\* the generic message of sanitize_error_for_client
AgentNotFound == "Agent not found"
PlainError == "CrewAI is not available."
RawError == "failed at /app/services/crew_service.py line 187"
GenericError == "An error occurred. Please try again or contact support."

\* the texts in which a pattern of sensitive_patterns matches
Sensitive == {RawError}

\* security_helpers.sanitize_error_for_client on an exception of no listed
\* type: a text with a redacted part is replaced by the generic message
sanitize_error_for_client(text) ==
    IF text \in Sensitive THEN GenericError ELSE text

\* result["error"] of a failure result, str(e) of a raised exception
ErrorText(res) ==
    IF res = "failure" THEN PlainError ELSE RawError

\* the agent every task of the model is bound to
AgentId == "agent"

\* result of CrewService.execute_agent_task: success, explicit failure, raise
Outcomes == {"success", "failure", "exception"}

EventTypes == {"task_started", "task_completed", "task_failed", "task_cancelled"}

\* current_user dicts handed to the handlers: with and without an email
Users == {"owner", "noemail"}

\* the two processes, each with its own import of app.routers.websocket
Processes == {"api", "worker"}

\* the topics a client of the model names in a subscribe message
Topics == {"task_completed", "task_cancelled"}

MAX_MESSAGE_SIZE == 65536
AUTH_TIMEOUT_SECONDS == 10

\* policy violation, the close code of a refused handshake
WS_1008_POLICY_VIOLATION == 1008

\* settings.allowed_email
allowed_email == "allowed"

\* identity tokens: none, and JWTs by signature, expiry and email claim
NoToken == [present |-> FALSE, signed |-> FALSE, expired |-> FALSE, email |-> ""]

GoodToken ==
    [present |-> TRUE, signed |-> TRUE, expired |-> FALSE,
     email |-> allowed_email]

Tokens ==
    {NoToken, GoodToken, [GoodToken EXCEPT !.signed = FALSE],
     [GoodToken EXCEPT !.expired = TRUE], [GoodToken EXCEPT !.email = "other"]}

\* the texts a client sends, by length, by whether they parse as JSON, and by
\* the action, token and event types of the object
Frame(size, json, action, token, event_types) ==
    [size |-> size, json |-> json, action |-> action, token |-> token,
     event_types |-> event_types]

\* texts within the cap: an unparseable one, authenticate with every token,
\* subscribe to some topics, ping, and an action the endpoint does not know
SmallFrames ==
    {Frame(MAX_MESSAGE_SIZE, FALSE, "", NoToken, {})}
    \cup {Frame(MAX_MESSAGE_SIZE, TRUE, "authenticate", k, {}) : k \in Tokens}
    \cup {Frame(MAX_MESSAGE_SIZE, TRUE, "subscribe", NoToken, T) :
             T \in (SUBSET Topics) \ {{}}}
    \cup {Frame(MAX_MESSAGE_SIZE, TRUE, a, NoToken, {}) :
             a \in {"ping", "unknown"}}

\* texts one character over the cap that would otherwise be accepted
LargeFrames ==
    {Frame(MAX_MESSAGE_SIZE + 1, TRUE, "authenticate", GoodToken, {}),
     Frame(MAX_MESSAGE_SIZE + 1, TRUE, "subscribe", NoToken, Topics),
     Frame(MAX_MESSAGE_SIZE + 1, TRUE, "ping", NoToken, {})}

Frames == SmallFrames \cup LargeFrames

\* the Celery id of the job enqueued for task t (self.request.id)
JobId(t) == t

JobIds == {JobId(t) : t \in TaskIds}

VARIABLES
    now,          \* wall clock read by utcnow / utcnow_naive
    agents,       \* table agents: id -> row
    tasks,        \* table tasks: id -> row
    queue,        \* undelivered job messages per task id
    deliveries,   \* messages ever put on the queue per task id
    revoked,      \* job ids revoked through celery_app.control.revoke
    revokes,      \* number of revoke calls per job id
    wpc,          \* position of each worker in execute_agent_task
    wjob,         \* task id of the job a worker is running
    wtask,        \* the worker session's copy of the task row
    wagent,       \* the worker session's copy of the agent row
    wresult,      \* what the execution engine gave the worker
    req,          \* the cancel_task requests
    broadcasts,   \* number of broadcast_event calls per task and event type
    executions,   \* number of execution engine invocations per task
    updates,      \* number of update_task calls so far
    created,      \* the responses of the create_task calls, in order
    ws,           \* the connections and their websocket_endpoint runs
    manager,      \* the ConnectionManager instance of each process
    outbox,       \* the messages sent to each connection, in order
    bc            \* the broadcast running in the API process

wsvars == <<ws, manager, outbox, bc>>

vars == <<now, agents, tasks, queue, deliveries, revoked, revokes, wpc, wjob,
          wtask, wagent, wresult, req, broadcasts, executions, updates,
          created, ws, manager, outbox, bc>>

\* ------------------------------------------------------------ the tables
\* a row of table tasks as create_task inserts it (column defaults)
NewTask(a) ==
    [agent_id |-> a, title |-> "title", description |-> NoText,
     priority |-> "medium", input_data |-> "input",
     status |-> PENDING, started_at |-> NULL,
     completed_at |-> NULL, celery_task_id |-> NULL, output_data |-> NoData,
     error_message |-> NoText, execution_time_seconds |-> NoSeconds]

NoRow == [agent_id |-> "", title |-> "", description |-> NoText,
          priority |-> "", input_data |-> NoData,
          status |-> "", started_at |-> NULL,
          completed_at |-> NULL, celery_task_id |-> NULL,
          output_data |-> NoData, error_message |-> NoText,
          execution_time_seconds |-> NoSeconds]

\* a row of table agents as it is inserted (column defaults of the metrics)
NewAgent == [tasks_completed |-> 0, tasks_failed |-> 0, last_active |-> NULL]

\* what the worker's agent select gave: the row, or nothing
NoAgent ==
    [found |-> FALSE, tasks_completed |-> 0, tasks_failed |-> 0,
     last_active |-> NULL]

Loaded(row) ==
    [found |-> TRUE, tasks_completed |-> row.tasks_completed,
     tasks_failed |-> row.tasks_failed, last_active |-> row.last_active]

\* the unit of work's UPDATE: the columns of cur that differ from the loaded
\* values in base overwrite the row, every other column keeps the row's value
Flush(row, base, cur) ==
    [c \in DOMAIN row |-> IF cur[c] # base[c] THEN cur[c] ELSE row[c]]

Broadcast(t, e) ==
    broadcasts' = [broadcasts EXCEPT ![t][e] = @ + 1]

\* a cancel_task request: its position, its task id and current_user, the
\* status the locking select loaded, and the response (HTTP code, status named
\* in the detail of a 400, status and completed_at of the returned task)
IdleRequest ==
    [pc |-> "idle", task |-> 0, user |-> "", from |-> "", code |-> 0,
     detail |-> "",
     status |-> "", completed_at |-> NULL]

\* ------------------------------------------------------ the real-time layer
\* a connection and the run of websocket_endpoint that serves it: the
\* handshake state, whether the client's end of the transport is gone, the
\* texts that arrived and are not read yet, the number of texts the client
\* sent, the seconds spent waiting for the first message, and the close code
NewConn ==
    [state |-> "new", dropped |-> FALSE, inbox |-> <<>>, frames |-> 0,
     waited |-> 0, close_code |-> 0]

\* ConnectionManager.__init__
NewManager == [active_connections |-> {}, subscriptions |-> <<>>]

\* the messages a connection is sent
Status(text) == [type |-> "status", body |-> text, task |-> 0]

Error(text) == [type |-> "error", body |-> text, task |-> 0]

Event(e, t) == [type |-> "event", body |-> e, task |-> t]

\* send_json raises on a transport that is closed or whose client is gone
CanSend(c) ==
    ws[c].state # "closed" /\ ~ws[c].dropped

\* a disconnect that leaves the subscriptions alone
disconnect_LiveOnly(m, c) ==
    [m EXCEPT !.active_connections = @ \ {c}]

\* ConnectionManager.disconnect
disconnect(m, c) ==
    [active_connections |-> m.active_connections \ {c},
     subscriptions |-> [e \in DOMAIN m.subscriptions |->
                           m.subscriptions[e] \ {c}]]

\* ConnectionManager.subscribe, for every event type of a subscribe message
subscribe(m, c, event_types) ==
    [m EXCEPT !.subscriptions =
        [e \in DOMAIN m.subscriptions \cup event_types |->
            (IF e \in DOMAIN m.subscriptions THEN m.subscriptions[e] ELSE {})
            \cup (IF e \in event_types THEN {c} ELSE {})]]

\* the connections a broadcast of e in process p iterates over
Subscribers(p, e) ==
    IF e \in DOMAIN manager[p].subscriptions
    THEN manager[p].subscriptions[e] ELSE {}

RECURSIVE Sum(_, _)
\* the sum of f over S
Sum(f, S) ==
    IF S = {} THEN 0
    ELSE LET x == CHOOSE x \in S : TRUE IN f[x] + Sum(f, S \ {x})

RECURSIVE DisconnectAll(_, _)
\* lines 68-69: the cleanup loop of broadcast
DisconnectAll(m, S) ==
    IF S = {} THEN m
    ELSE LET c == CHOOSE c \in S : TRUE
         IN DisconnectAll(disconnect(m, c), S \ {c})

\* the loop of broadcast in the API process: where it stands, who called it
\* (0: broadcast_event called directly, r: cancel_task request r), the set as
\* it was when the loop began, the connections visited, the one being sent
\* to, the failed ones, how the last loop ended, and the connections that a
\* broadcast called after this one has meanwhile sent an event of the same
\* task to
IdleBroadcast ==
    [pc |-> "idle", caller |-> 0, event_type |-> "", task |-> 0,
     snapshot |-> {}, visited |-> {}, cur |-> 0, disconnected |-> {},
     outcome |-> "none", later |-> {}]

\* lines 57 and 67-69, from the end of one send to the start of the next: the
\* set iterator raises RuntimeError when the set changed size under it, which
\* nothing in broadcast catches; on a set changed at equal size the iterator
\* goes on through the hash table as it is now, where a member added
\* meanwhile lies before or behind its position, so the loop may end with
\* members unvisited; otherwise the next unvisited connection is sent to, and
\* after the last one the failed connections are disconnected and broadcast
\* returns
Iterate(b) ==
    LET S == manager["api"].subscriptions[b.event_type]
        same == S = b.snapshot
        rest == S \ b.visited
    IN IF Cardinality(S) # Cardinality(b.snapshot)
       THEN /\ bc' = [b EXCEPT !.pc = "idle", !.cur = 0, !.outcome = "raised"]
            /\ manager' = manager
       ELSE \/ \E c \in rest :
                  /\ bc' = [b EXCEPT !.pc = "sending", !.cur = c,
                                     !.visited = @ \cup {c}]
                  /\ manager' = manager
            \/ /\ same => rest = {}
               /\ bc' = [b EXCEPT !.pc = "idle", !.cur = 0,
                                  !.outcome = "returned"]
               /\ manager' = [manager EXCEPT
                                 !["api"] = DisconnectAll(@, b.disconnected)]

\* manager.broadcast in the API process up to its first suspension: line 53
\* returns when nobody ever subscribed to the event type
BroadcastBegin(caller, e, t) ==
    /\ bc.pc = "idle"
    /\ LET b == [IdleBroadcast EXCEPT !.caller = caller, !.event_type = e,
                                      !.task = t]
       IN IF e \notin DOMAIN manager["api"].subscriptions
          THEN UNCHANGED <<bc, manager>>
          ELSE Iterate([b EXCEPT !.snapshot = Subscribers("api", e)])

\* manager.broadcast in the worker process, whose event loop runs nothing but
\* the job, so that the whole loop is one step
BroadcastWhole(p, e, t) ==
    /\ outbox' = [c \in Conns |->
                     IF c \in Subscribers(p, e) /\ CanSend(c)
                     THEN Append(outbox[c], Event(e, t)) ELSE outbox[c]]
    /\ manager' = [manager EXCEPT
                      ![p] = DisconnectAll(@, {c \in Subscribers(p, e) :
                                                  ~CanSend(c)})]

Init ==
    /\ now = 1
    /\ agents = [a \in {AgentId} |-> NewAgent]
    /\ tasks = <<>>
    /\ queue = [t \in TaskIds |-> 0]
    /\ deliveries = [t \in TaskIds |-> 0]
    /\ revoked = {}
    /\ revokes = [j \in JobIds |-> 0]
    /\ wpc = [w \in Workers |-> "idle"]
    /\ wjob = [w \in Workers |-> 0]
    /\ wtask = [w \in Workers |-> NoRow]
    /\ wagent = [w \in Workers |-> NoAgent]
    /\ wresult = [w \in Workers |-> "none"]
    /\ req = [r \in Requests |-> IdleRequest]
    /\ broadcasts = [t \in TaskIds |-> [e \in EventTypes |-> 0]]
    /\ executions = [t \in TaskIds |-> 0]
    /\ updates = 0
    /\ created = <<>>
    /\ ws = [c \in Conns |-> NewConn]
    /\ manager = [p \in Processes |-> NewManager]
    /\ outbox = [c \in Conns |-> <<>>]
    /\ bc = IdleBroadcast

\* ----------------------------------------------------------------- clock
Tick ==
    /\ now < MaxTime
    /\ now' = now + 1
    /\ UNCHANGED <<agents, tasks, queue, deliveries, revoked, revokes, wpc,
                   wjob, wtask, wagent, wresult, req, broadcasts, executions,
                   updates,
                   wsvars,
                   created>>

\* ----------------------------------------------------------- create_task
\* the response of create_task: the HTTP code, and the id and status of the
\* task in the body of a 201
Response(code, t, status) ==
    [code |-> code, task |-> t, status |-> status]

\* a handler that queues the job of a task twice
Enqueued_Twice(q, t) ==
    [q EXCEPT ![t] = @ + 2]

\* line 49: execute_agent_task.delay(task.id) puts one message on the queue
Enqueued(q, t) ==
    [q EXCEPT ![t] = @ + 1]

\* POST /tasks, lines 35-51: 404 without a write when the agent is missing;
\* otherwise the row is committed and read back, delay enqueues the job, and
\* the task as read back is returned
create_task(a) ==
    /\ Len(created) < MaxTasks
    /\ IF a \notin DOMAIN agents
       THEN /\ created' = Append(created, Response(404, 0, ""))
            /\ UNCHANGED <<tasks, queue, deliveries>>
       ELSE LET t == Len(tasks) + 1
                committed == Append(tasks, NewTask(a))
            IN /\ tasks' = committed
               /\ queue' = Enqueued(queue, t)
               /\ deliveries' = Enqueued(deliveries, t)
               /\ created' = Append(created,
                                    Response(201, t, committed[t].status))
    /\ UNCHANGED <<now, agents, revoked, revokes, wpc, wjob, wtask, wagent,
                   wresult, req, broadcasts, executions,
                   updates,
                   wsvars>>

\* POST /tasks while the broker cannot be reached: the row is committed and
\* read back at lines 44-46, delay at line 49 raises, nothing around it
\* catches the error, and the request is answered 500 by the framework
create_task_unavailable(a) ==
    /\ Len(created) < MaxTasks
    /\ a \in DOMAIN agents
    /\ tasks' = Append(tasks, NewTask(a))
    /\ created' = Append(created, Response(500, 0, ""))
    /\ UNCHANGED <<now, agents, queue, deliveries, revoked, revokes, wpc, wjob,
                   wtask, wagent, wresult, req, broadcasts, executions,
                   updates,
                   wsvars>>

\* ---------------------------------------------------- execute_agent_task
\* at-least-once delivery: the broker may hand the same job out again
redeliver(t) ==
    /\ t \in DOMAIN tasks
    /\ deliveries[t] < MaxDeliveries
    /\ queue' = [queue EXCEPT ![t] = @ + 1]
    /\ deliveries' = [deliveries EXCEPT ![t] = @ + 1]
    /\ UNCHANGED <<now, agents, tasks, revoked, revokes, wpc, wjob, wtask,
                   wagent, wresult, req, broadcasts, executions,
                   updates,
                   wsvars,
                   created>>

\* the run of execute_agent_task ends: its session and locals are gone
Return(w) ==
    /\ wpc' = [wpc EXCEPT ![w] = "idle"]
    /\ wjob' = [wjob EXCEPT ![w] = 0]
    /\ wtask' = [wtask EXCEPT ![w] = NoRow]
    /\ wagent' = [wagent EXCEPT ![w] = NoAgent]
    /\ wresult' = [wresult EXCEPT ![w] = "none"]

\* lines 55-56: the agent-missing path
AgentMissingRow(row) ==
    [row EXCEPT !.status = FAILED, !.error_message = AgentNotFound]

\* lines 61-63: the claim
ClaimedRow(row, t) ==
    [row EXCEPT !.status = RUNNING, !.started_at = now,
                !.celery_task_id = JobId(t)]

\* lines 87-97: the task after the engine returned a result
ResultRow(row, res) ==
    [row EXCEPT !.status = IF res = "success" THEN COMPLETED ELSE FAILED,
                !.output_data = res, !.completed_at = now,
                !.error_message = IF res = "success" THEN @
                                                     ELSE ErrorText(res),
                !.execution_time_seconds =
                    IF row.started_at # NULL THEN now - row.started_at
                                             ELSE @]

\* lines 139-141: the task after the engine raised
ExceptionRow(row) ==
    [row EXCEPT !.status = FAILED, !.error_message = ErrorText("exception"),
                !.completed_at = now]

\* lines 42-52: a worker takes a job and selects the task and its agent
execute_agent_task_load(w, t) ==
    /\ wpc[w] = "idle"
    /\ queue[t] > 0
    /\ queue' = [queue EXCEPT ![t] = @ - 1]
    /\ wjob' = [wjob EXCEPT ![w] = t]
    /\ wtask' = [wtask EXCEPT ![w] = tasks[t]]
    /\ wagent' = [wagent EXCEPT ![w] =
                      IF tasks[t].agent_id \in DOMAIN agents
                      THEN Loaded(agents[tasks[t].agent_id]) ELSE NoAgent]
    /\ wresult' = [wresult EXCEPT ![w] = "none"]
    /\ wpc' = [wpc EXCEPT ![w] = "loaded"]
    /\ UNCHANGED <<now, agents, tasks, deliveries, revoked, revokes, req,
                   broadcasts, executions,
                   updates,
                   wsvars,
                   created>>

\* lines 54-64: commit FAILED when the agent is missing, else commit the claim
execute_agent_task_claim(w) ==
    /\ wpc[w] = "loaded"
    /\ LET t == wjob[w]
           new == IF wagent[w].found THEN ClaimedRow(wtask[w], t)
                                     ELSE AgentMissingRow(wtask[w])
       IN /\ tasks' = [tasks EXCEPT ![t] = Flush(@, wtask[w], new)]
          /\ IF wagent[w].found
             THEN /\ wtask' = [wtask EXCEPT ![w] = new]
                  /\ wpc' = [wpc EXCEPT ![w] = "claimed"]
                  /\ UNCHANGED <<wjob, wagent, wresult>>
             ELSE Return(w)
    /\ UNCHANGED <<now, agents, queue, deliveries, revoked, revokes, req,
                   broadcasts, executions,
                   updates,
                   wsvars,
                   created>>

\* lines 66-78: broadcast task_started
execute_agent_task_started(w) ==
    /\ wpc[w] = "claimed"
    /\ Broadcast(wjob[w], "task_started")
    /\ BroadcastWhole("worker", "task_started", wjob[w])
    /\ wpc' = [wpc EXCEPT ![w] = "executing"]
    /\ UNCHANGED <<now, agents, tasks, queue, deliveries, revoked, revokes,
                   wjob, wtask, wagent, wresult, req, executions,
                   updates, ws, bc,
                   created>>

\* lines 80-84: the call of CrewService.execute_agent_task
execute_agent_task_run(w, res) ==
    /\ wpc[w] = "executing"
    /\ executions' = [executions EXCEPT ![wjob[w]] = @ + 1]
    /\ wresult' = [wresult EXCEPT ![w] = res]
    /\ wpc' = [wpc EXCEPT ![w] = "executed"]
    /\ UNCHANGED <<now, agents, tasks, queue, deliveries, revoked, revokes,
                   wjob, wtask, wagent, req, broadcasts,
                   updates,
                   wsvars,
                   created>>

\* lines 99-105 and 142: the metrics after the run, counted on the values the
\* session loaded; last_active is assigned where the engine returned a result
Counted(agent, res) ==
    IF res = "success"
    THEN [agent EXCEPT !.tasks_completed = @ + 1, !.last_active = now]
    ELSE IF res = "failure"
    THEN [agent EXCEPT !.tasks_failed = @ + 1, !.last_active = now]
    ELSE [agent EXCEPT !.tasks_failed = @ + 1]

\* lines 86-107 and 137-143: commit the terminal status and the agent's
\* metrics in one transaction.  The UPDATE of an agent row that is gone
\* matches no row: the flush raises, nothing is written, and the handler at
\* line 137 cannot commit either, so the run ends with the error.
execute_agent_task_finish(w) ==
    /\ wpc[w] = "executed"
    /\ LET t == wjob[w]
           a == wtask[w].agent_id
           new == IF wresult[w] = "exception" THEN ExceptionRow(wtask[w])
                  ELSE ResultRow(wtask[w], wresult[w])
           agent == Counted(wagent[w], wresult[w])
       IN IF a \in DOMAIN agents
          THEN /\ tasks' = [tasks EXCEPT ![t] = Flush(@, wtask[w], new)]
               /\ agents' = [agents EXCEPT ![a] = Flush(@, wagent[w], agent)]
               /\ wtask' = [wtask EXCEPT ![w] = new]
               /\ wagent' = [wagent EXCEPT ![w] = agent]
               /\ wpc' = [wpc EXCEPT ![w] = "finished"]
               /\ UNCHANGED <<wjob, wresult>>
          ELSE /\ Return(w)
               /\ UNCHANGED <<tasks, agents>>
    /\ UNCHANGED <<now, queue, deliveries, revoked, revokes, req, broadcasts,
                   executions, updates,
                   wsvars,
                   created>>

\* lines 119-133 and 159-170: broadcast task_completed or task_failed
execute_agent_task_done(w) ==
    /\ wpc[w] = "finished"
    /\ LET event_type == IF wresult[w] = "success" THEN "task_completed"
                                                   ELSE "task_failed"
       IN /\ Broadcast(wjob[w], event_type)
          /\ BroadcastWhole("worker", event_type, wjob[w])
    /\ Return(w)
    /\ UNCHANGED <<now, agents, tasks, queue, deliveries, revoked, revokes,
                   req, executions,
                   updates, ws, bc,
                   created>>

\* revoke(terminate=True) is best effort: the process running a revoked job
\* may be killed at any statement, after which it writes and sends nothing
job_terminated(w) ==
    /\ wpc[w] # "idle"
    /\ JobId(wjob[w]) \in revoked
    /\ Return(w)
    /\ UNCHANGED <<now, agents, tasks, queue, deliveries, revoked, revokes,
                   req, broadcasts, executions,
                   updates,
                   wsvars,
                   created>>

\* a worker that knows a job id as revoked drops the message unexecuted
job_discarded(t) ==
    /\ queue[t] > 0
    /\ JobId(t) \in revoked
    /\ queue' = [queue EXCEPT ![t] = @ - 1]
    /\ UNCHANGED <<now, agents, tasks, deliveries, revoked, revokes, wpc, wjob,
                   wtask, wagent, wresult, req, broadcasts, executions,
                   updates,
                   wsvars,
                   created>>

\* celery_app.py line 67, task_time_limit: the pool kills the process of a job
\* that runs past the hard limit, as a crash of the worker process does at any
\* statement; the job writes and sends nothing more, and its message,
\* acknowledged when it was delivered, is not handed out again
task_time_limit_exceeded(w) ==
    /\ wpc[w] # "idle"
    /\ Return(w)
    /\ UNCHANGED <<now, agents, tasks, queue, deliveries, revoked, revokes,
                   req, broadcasts, executions,
                   updates,
                   wsvars,
                   created>>

Worker(w) ==
    \/ \E t \in TaskIds : execute_agent_task_load(w, t)
    \/ execute_agent_task_claim(w)
    \/ execute_agent_task_started(w)
    \/ \E res \in Outcomes : execute_agent_task_run(w, res)
    \/ execute_agent_task_finish(w)
    \/ execute_agent_task_done(w)
    \/ job_terminated(w)

\* ------------------------------------------------------------ update_task
\* the keys of the JSON bodies sent to PATCH /tasks/{id}: the fields of the
\* schema and columns of the task that the schema does not have
PatchKeys ==
    {"title", "description", "priority", "status", "input_data",
     "output_data"}

\* the value a body has for a key other than status
PatchValue ==
    [title |-> "renamed", description |-> "described", priority |-> "high",
     input_data |-> "other", output_data |-> "forged"]

\* the body with the keys K, and with the status s when it has one
Body(K, s) ==
    [f \in K |-> IF f = "status" THEN s ELSE PatchValue[f]]

\* schemas/task.py, TaskUpdate, and line 123: the model keeps the fields it
\* declares and ignores every other key; model_dump(exclude_unset=True) gives
\* the declared fields that the body has
TaskUpdate(body) ==
    [f \in DOMAIN body \cap {"title", "description", "priority", "status"}
        |-> body[f]]

\* line 126
allowed_fields == {"title", "description", "priority", "status"}

\* lines 128-130: setattr for the fields of update_data that are allowed
Patched(row, update_data) ==
    [c \in DOMAIN row |->
        IF c \in DOMAIN update_data /\ c \in allowed_fields
        THEN update_data[c] ELSE row[c]]

\* a handler that sets every key of the body on the task with setattr
update_task_Setattr(t, body) ==
    /\ t \in DOMAIN tasks
    /\ updates < MaxUpdates
    /\ updates' = updates + 1
    /\ tasks' = [tasks EXCEPT ![t] =
                    [c \in DOMAIN @ |-> IF c \in DOMAIN body THEN body[c]
                                                             ELSE @[c]]]
    /\ UNCHANGED <<now, agents, queue, deliveries, revoked, revokes, wpc, wjob,
                   wtask, wagent, wresult, req, broadcasts, executions,
                   wsvars,
                   created>>

\* PATCH /tasks/{id}: the body is parsed into TaskUpdate, the allowed fields
\* it has are set with setattr and committed; the handler checks nothing
\* about the values
update_task(t, body) ==
    /\ t \in DOMAIN tasks
    /\ updates < MaxUpdates
    /\ updates' = updates + 1
    /\ tasks' = [tasks EXCEPT
                    ![t] = Flush(@, @, Patched(@, TaskUpdate(body)))]
    /\ UNCHANGED <<now, agents, queue, deliveries, revoked, revokes, wpc, wjob,
                   wtask, wagent, wresult, req, broadcasts, executions,
                   wsvars,
                   created>>

\* ----------------------------------------------------------- delete_agent
\* AgentService.delete_agent removes the agent row; with the default SQLite
\* database the foreign key is not enforced and the agent's tasks stay
delete_agent(a) ==
    /\ a \in DOMAIN agents
    /\ agents' = [b \in DOMAIN agents \ {a} |-> agents[b]]
    /\ UNCHANGED <<now, tasks, queue, deliveries, revoked, revokes, wpc, wjob,
                   wtask, wagent, wresult, req, broadcasts, executions,
                   updates,
                   wsvars,
                   created>>

\* ------------------------------------------------------------ cancel_task
\* the locking select without its status filter
Cancellable_AnyStatus(s) ==
    s \in TaskStatus

\* line 169: the statuses the locking select accepts
Cancellable(s) ==
    s \in {PENDING, RUNNING}

\* an ownership check that lets everybody through
verify_task_ownership_Always(u) ==
    TRUE

\* security_helpers.verify_task_ownership: any user dict with an email passes
verify_task_ownership(u) ==
    u # "noemail"

\* a cancel that never revokes
HasJob_Never(row) ==
    FALSE

\* line 195: whether the job is revoked
HasJob(row) ==
    row.celery_task_id # NULL

\* lines 201-202
CancelledRow(row) ==
    [row EXCEPT !.status = CANCELLED, !.completed_at = now]

\* an id no task row has
NoSuchTask == MaxTasks + 1

\* lines 163-205: the locking select, the ownership check, the revoke and the
\* commit of CANCELLED; the row lock makes them one step.  When the locking
\* select matches no existing row the handler goes on to the second select.
cancel_task_commit(r, t, u) ==
    /\ req[r].pc = "idle"
    /\ r > 1 => req[r - 1].pc # "idle"
    /\ IF t \notin DOMAIN tasks
       THEN /\ req' = [req EXCEPT ![r] = [@ EXCEPT !.pc = "done", !.task = t,
                                             !.user = u, !.code = 404]]
            /\ UNCHANGED <<tasks, revoked, revokes>>
       ELSE IF ~Cancellable(tasks[t].status)
       THEN /\ req' = [req EXCEPT ![r] = [@ EXCEPT !.pc = "check", !.task = t,
                                             !.user = u]]
            /\ UNCHANGED <<tasks, revoked, revokes>>
       ELSE IF ~verify_task_ownership(u)
       THEN /\ req' = [req EXCEPT ![r] = [@ EXCEPT !.pc = "done", !.task = t,
                                             !.user = u, !.code = 403]]
            /\ UNCHANGED <<tasks, revoked, revokes>>
       ELSE /\ req' = [req EXCEPT ![r] = [@ EXCEPT !.pc = "committed",
                                             !.task = t, !.user = u,
                                             !.from = tasks[t].status]]
            /\ IF HasJob(tasks[t])
               THEN /\ revoked' = revoked \cup {tasks[t].celery_task_id}
                    /\ revokes' = [revokes EXCEPT
                                      ![tasks[t].celery_task_id] = @ + 1]
               ELSE UNCHANGED <<revoked, revokes>>
            /\ tasks' = [tasks EXCEPT
                            ![t] = Flush(@, tasks[t], CancelledRow(tasks[t]))]
    /\ UNCHANGED <<now, agents, queue, deliveries, wpc, wjob, wtask, wagent,
                   wresult, broadcasts, executions,
                   updates,
                   wsvars,
                   created>>

\* lines 176-186: the second select, answering 400 with the status it reads
cancel_task_check(r) ==
    /\ req[r].pc = "check"
    /\ req' = [req EXCEPT ![r] = [@ EXCEPT !.pc = "done", !.code = 400,
                                     !.detail = tasks[req[r].task].status]]
    /\ UNCHANGED <<now, agents, tasks, queue, deliveries, revoked, revokes,
                   wpc, wjob, wtask, wagent, wresult, broadcasts, executions,
                   updates,
                   wsvars,
                   created>>

\* line 206: db.refresh(task) reads the row again after the commit
cancel_task_refresh(r) ==
    /\ req[r].pc = "committed"
    /\ req' = [req EXCEPT ![r] =
                  [@ EXCEPT !.pc = "refreshed",
                            !.status = tasks[req[r].task].status,
                            !.completed_at = tasks[req[r].task].completed_at]]
    /\ UNCHANGED <<now, agents, tasks, queue, deliveries, revoked, revokes,
                   wpc, wjob, wtask, wagent, wresult, broadcasts, executions,
                   updates,
                   wsvars,
                   created>>

\* lines 208-222: broadcast task_cancelled and return the refreshed task;
\* the handler waits while the broadcast is suspended in a send
cancel_task_broadcast(r) ==
    /\ req[r].pc = "refreshed"
    /\ Broadcast(req[r].task, "task_cancelled")
    /\ BroadcastBegin(r, "task_cancelled", req[r].task)
    /\ req' = [req EXCEPT ![r] =
                  IF bc'.pc = "idle"
                  THEN [@ EXCEPT !.pc = "done", !.code = 200]
                  ELSE [@ EXCEPT !.pc = "broadcasting"]]
    /\ UNCHANGED <<now, agents, tasks, queue, deliveries, revoked, revokes,
                   wpc, wjob, wtask, wagent, wresult, executions,
                   updates, ws, outbox,
                   created>>

\* lines 163-198 while the broker cannot be reached: revoke at line 196
\* raises inside the savepoint, which is rolled back; the status is not
\* written, nothing is broadcast, and the request is answered 500
cancel_task_unavailable(r, t, u) ==
    /\ req[r].pc = "idle"
    /\ r > 1 => req[r - 1].pc # "idle"
    /\ t \in DOMAIN tasks
    /\ Cancellable(tasks[t].status)
    /\ verify_task_ownership(u)
    /\ HasJob(tasks[t])
    /\ req' = [req EXCEPT ![r] = [@ EXCEPT !.pc = "done", !.task = t,
                                     !.user = u, !.code = 500]]
    /\ UNCHANGED <<now, agents, tasks, queue, deliveries, revoked, revokes,
                   wpc, wjob, wtask, wagent, wresult, broadcasts, executions,
                   updates,
                   wsvars,
                   created>>

cancel_task(r) ==
    \/ \E t \in TaskIds \cup {NoSuchTask}, u \in Users :
          cancel_task_commit(r, t, u)
    \/ cancel_task_check(r)
    \/ cancel_task_refresh(r)
    \/ cancel_task_broadcast(r)

\* line 222 of cancel_task once the broadcast is through: the task is
\* returned when broadcast returned, its RuntimeError is an unhandled error
cancel_task_respond(r) ==
    /\ req[r].pc = "broadcasting"
    /\ bc.pc = "idle"
    /\ bc.caller = r
    /\ req' = [req EXCEPT ![r] =
                  [@ EXCEPT !.pc = "done",
                            !.code = IF bc.outcome = "returned" THEN 200
                                                               ELSE 500]]
    /\ bc' = [bc EXCEPT !.caller = 0]
    /\ UNCHANGED <<now, agents, tasks, queue, deliveries, revoked, revokes,
                   wpc, wjob, wtask, wagent, wresult, broadcasts, executions,
                   updates, ws, manager, outbox,
                   created>>

\* ----------------------------------------------------- websocket_endpoint
taskvars == <<now, agents, tasks, queue, deliveries, revoked, revokes, wpc,
              wjob, wtask, wagent, wresult, req, executions, updates,
              created>>

\* a handshake that registers the connection on accept, as
\* ConnectionManager.connect would
Accepted_Registered(m, c) ==
    [m EXCEPT !.active_connections = @ \cup {c}]

\* line 129: the endpoint accepts the transport itself and registers nothing
Accepted(m, c) ==
    m

\* a client opens a connection and the endpoint accepts it
websocket_accept(c) ==
    /\ ws[c].state = "new"
    /\ ws' = [ws EXCEPT ![c] = [@ EXCEPT !.state = "connected"]]
    /\ manager' = [manager EXCEPT !["api"] = Accepted(@, c)]
    /\ UNCHANGED <<taskvars, broadcasts, outbox, bc>>

\* a second passes for the endpoints that wait in receive_text at line 136
handshake_wait ==
    /\ \E c \in Conns :
          ws[c].state = "connected" /\ ws[c].waited < AUTH_TIMEOUT_SECONDS
    /\ ws' = [c \in Conns |->
                 IF ws[c].state = "connected"
                       /\ ws[c].waited < AUTH_TIMEOUT_SECONDS
                 THEN [ws[c] EXCEPT !.waited = @ + 1] ELSE ws[c]]
    /\ UNCHANGED <<taskvars, broadcasts, manager, outbox, bc>>

\* the number of texts the clients have sent so far
FramesSent ==
    Sum([c \in Conns |-> ws[c].frames], Conns)

\* the client sends a text; one text is under way at a time
client_send(c, f) ==
    /\ ws[c].state \in {"connected", "authenticated"}
    /\ ~ws[c].dropped
    /\ \A d \in Conns : ws[d].inbox = <<>>
    /\ FramesSent < MaxFrames
    /\ ws' = [ws EXCEPT ![c] = [@ EXCEPT !.inbox = Append(@, f),
                                         !.frames = @ + 1]]
    /\ UNCHANGED <<taskvars, broadcasts, manager, outbox, bc>>

\* the client's end of the transport goes away
client_drop(c) ==
    /\ ws[c].state \in {"connected", "authenticated"}
    /\ ~ws[c].dropped
    /\ ws' = [ws EXCEPT ![c] = [@ EXCEPT !.dropped = TRUE]]
    /\ UNCHANGED <<taskvars, broadcasts, manager, outbox, bc>>

\* a cap that lets every text through
TooLarge_Never(size) ==
    FALSE

\* lines 139 and 182
TooLarge(size) ==
    size > MAX_MESSAGE_SIZE

\* a verification that ignores the expiry
verify_websocket_token_NoExpiry(token) ==
    /\ token.present
    /\ token.signed
    /\ token.email = allowed_email

\* lines 75-106: the payload is returned for a token that is present, decodes
\* (signature and expiry) and names the allowed email
verify_websocket_token(token) ==
    /\ token.present
    /\ token.signed
    /\ ~token.expired
    /\ token.email = allowed_email

\* lines 138-172: what the first message is answered with
HandshakeReply(f) ==
    IF TooLarge(f.size) THEN Error("Message too large")
    ELSE IF ~f.json THEN Error("Invalid JSON")
    ELSE IF f.action # "authenticate"
    THEN Error("First message must be authentication")
    ELSE IF ~verify_websocket_token(f.token)
    THEN Error("Authentication failed")
    ELSE Status("authenticated")

\* lines 134-175 and 215-217: the first message.  Every branch sends its
\* answer first: on a transport whose client is gone the send raises and the
\* handler ends in manager.disconnect; otherwise an error answer is followed
\* by close(1008), and the authenticated answer by the registration
websocket_endpoint_auth(c) ==
    /\ ws[c].state = "connected"
    /\ ws[c].inbox # <<>>
    /\ LET reply == HandshakeReply(Head(ws[c].inbox))
           read == [ws[c] EXCEPT !.inbox = Tail(@), !.waited = 0]
       IN IF ws[c].dropped
          THEN /\ ws' = [ws EXCEPT ![c] = [read EXCEPT !.state = "closed"]]
               /\ manager' = [manager EXCEPT !["api"] = disconnect(@, c)]
               /\ outbox' = outbox
          ELSE IF reply.type = "error"
          THEN /\ ws' = [ws EXCEPT ![c] =
                            [read EXCEPT !.state = "closed",
                                         !.close_code =
                                             WS_1008_POLICY_VIOLATION]]
               /\ manager' = manager
               /\ outbox' = [outbox EXCEPT ![c] = Append(@, reply)]
          ELSE /\ ws' = [ws EXCEPT ![c] =
                            [read EXCEPT !.state = "authenticated"]]
               /\ manager' = [manager EXCEPT
                                 !["api"].active_connections = @ \cup {c}]
               /\ outbox' = [outbox EXCEPT ![c] = Append(@, reply)]
    /\ UNCHANGED <<taskvars, broadcasts, bc>>

\* a loop that answers a ping as an unknown action
LoopReply_NoPong(f) ==
    IF TooLarge(f.size) THEN Error("Message too large")
    ELSE IF ~f.json THEN Error("Invalid JSON")
    ELSE IF f.action = "subscribe" THEN Status("subscribed")
    ELSE IF f.action = "authenticate" THEN Status("already_authenticated")
    ELSE Error("Unknown action")

\* lines 181-210: what a message of the main loop is answered with
LoopReply(f) ==
    IF TooLarge(f.size) THEN Error("Message too large")
    ELSE IF ~f.json THEN Error("Invalid JSON")
    ELSE IF f.action = "subscribe" THEN Status("subscribed")
    ELSE IF f.action = "ping" THEN Status("pong")
    ELSE IF f.action = "authenticate" THEN Status("already_authenticated")
    ELSE Error("Unknown action")

\* a loop in which authenticate starts the connection afresh
LoopManager_Reset(m, c, f) ==
    IF ~TooLarge(f.size) /\ f.json /\ f.action = "subscribe"
    THEN subscribe(m, c, f.event_types)
    ELSE IF ~TooLarge(f.size) /\ f.json /\ f.action = "authenticate"
    THEN disconnect(m, c)
    ELSE m

\* lines 181-196: the manager after a message of the main loop
LoopManager(m, c, f) ==
    IF ~TooLarge(f.size) /\ f.json /\ f.action = "subscribe"
    THEN subscribe(m, c, f.event_types)
    ELSE m

\* lines 178-217: one message of the main loop.  The answer is sent last; when
\* the send raises the handler ends in manager.disconnect
websocket_endpoint_message(c) ==
    /\ ws[c].state = "authenticated"
    /\ ws[c].inbox # <<>>
    /\ LET f == Head(ws[c].inbox)
           read == [ws[c] EXCEPT !.inbox = Tail(@)]
           m == LoopManager(manager["api"], c, f)
       IN IF ws[c].dropped
          THEN /\ ws' = [ws EXCEPT ![c] = [read EXCEPT !.state = "closed"]]
               /\ manager' = [manager EXCEPT !["api"] = disconnect(m, c)]
               /\ outbox' = outbox
          ELSE /\ ws' = [ws EXCEPT ![c] = read]
               /\ manager' = [manager EXCEPT !["api"] = m]
               /\ outbox' = [outbox EXCEPT ![c] = Append(@, LoopReply(f))]
    /\ UNCHANGED <<taskvars, broadcasts, bc>>

\* lines 212-214: receive_text raises WebSocketDisconnect once the client is
\* gone and every text it sent has been read
websocket_endpoint_disconnect(c) ==
    /\ ws[c].state \in {"connected", "authenticated"}
    /\ ws[c].dropped
    /\ ws[c].inbox = <<>>
    /\ ws' = [ws EXCEPT ![c] = [@ EXCEPT !.state = "closed", !.waited = 0]]
    /\ manager' = [manager EXCEPT !["api"] = disconnect(@, c)]
    /\ UNCHANGED <<taskvars, broadcasts, outbox, bc>>

websocket_endpoint(c) ==
    \/ websocket_accept(c)
    \/ websocket_endpoint_auth(c)
    \/ websocket_endpoint_message(c)
    \/ websocket_endpoint_disconnect(c)

\* the number of broadcast_event calls so far
BroadcastCalls ==
    Sum([p \in TaskIds \X EventTypes |-> broadcasts[p[1]][p[2]]],
        TaskIds \X EventTypes)

\* lines 220-231: a handler of the API process calls broadcast_event
broadcast_event(e, t) ==
    /\ BroadcastCalls < MaxBroadcasts
    /\ Broadcast(t, e)
    /\ BroadcastBegin(0, e, t)
    /\ UNCHANGED <<taskvars, ws, outbox>>

\* lines 58-69: the send the broadcast was suspended in is through, with the
\* event delivered or with an exception that marks the connection for cleanup,
\* and the loop goes on
broadcast_send ==
    /\ bc.pc = "sending"
    /\ LET c == bc.cur IN
        IF CanSend(c)
        THEN /\ outbox' = [outbox EXCEPT
                              ![c] = Append(@, Event(bc.event_type, bc.task))]
             /\ Iterate(bc)
        ELSE /\ outbox' = outbox
             /\ Iterate([bc EXCEPT !.disconnected = @ \cup {c}])
    /\ UNCHANGED <<taskvars, broadcasts, ws>>

\* lines 51-69 and 220-231: a handler calls broadcast_event while the
\* broadcast of another handler is suspended in a send.  The call is for the
\* same task and goes to connections other than the one that send is to, so
\* that none of its own sends has to wait: its loop runs in one step
broadcast_event_overlapping(e, t) ==
    /\ bc.pc = "sending"
    /\ bc.task = t
    /\ bc.cur \notin Subscribers("api", e)
    /\ BroadcastCalls < MaxBroadcasts + MaxOverlaps
    /\ Broadcast(t, e)
    /\ BroadcastWhole("api", e, t)
    /\ bc' = [bc EXCEPT !.later = @ \cup {c \in Subscribers("api", e) :
                                              CanSend(c)}]
    /\ UNCHANGED <<taskvars, ws>>

\* every handler and the worker, at one reading of the clock: the claims
\* checked under Spec are about statuses, responses and calls, not about the
\* value of a timestamp; the clock runs in NextLifecycle
Next ==
    \/ \E a \in {AgentId} : create_task(a)
    \/ \E t \in TaskIds : redeliver(t)
    \/ \E t \in TaskIds : job_discarded(t)
    \/ \E w \in Workers : Worker(w)
    \/ \E r \in Requests : cancel_task(r)
    \/ \E t \in TaskIds, s \in TaskStatus :
          update_task(t, Body({"status"}, s))
    \/ \E a \in {AgentId} : delete_agent(a)

Spec == Init /\ [][Next]_vars

\* the lifecycle alone: tasks are created, delivered, executed and cancelled,
\* nobody patches a task and no agent is deleted
NextLifecycle ==
    \/ Tick
    \/ \E a \in {AgentId} : create_task(a)
    \/ \E t \in TaskIds : redeliver(t)
    \/ \E t \in TaskIds : job_discarded(t)
    \/ \E w \in Workers : Worker(w)
    \/ \E r \in Requests : cancel_task(r)

SpecLifecycle == Init /\ [][NextLifecycle]_vars

\* the real-time layer alone: connections come and go, send their messages,
\* and handlers of the API process broadcast events
NextRealtime ==
    \/ \E c \in Conns : websocket_endpoint(c)
    \/ \E c \in Conns, f \in Frames : client_send(c, f)
    \/ \E c \in Conns : client_drop(c)
    \/ \E e \in EventTypes, t \in TaskIds : broadcast_event(e, t)
    \/ broadcast_send

SpecRealtime == Init /\ [][NextRealtime]_vars

\* the handshake with its clock.  The endpoint takes a message that has
\* arrived, and time passes; no client is bound to send anything
NextHandshake ==
    \/ \E c \in Conns : websocket_endpoint(c)
    \/ handshake_wait
    \/ \E c \in Conns, f \in Frames : client_send(c, f)
    \/ \E c \in Conns : client_drop(c)

SpecHandshake ==
    /\ Init
    /\ [][NextHandshake]_vars
    /\ WF_vars(handshake_wait)
    /\ \A c \in Conns :
          /\ WF_vars(websocket_endpoint_auth(c))
          /\ WF_vars(websocket_endpoint_message(c))
          /\ WF_vars(websocket_endpoint_disconnect(c))

\* a task from its creation to the end of its one run, with the connections
\* of the API process looking on
NextEndToEnd ==
    \/ \E a \in {AgentId} : create_task(a)
    \/ \E w \in Workers, t \in TaskIds : execute_agent_task_load(w, t)
    \/ \E w \in Workers : execute_agent_task_claim(w)
    \/ \E w \in Workers : execute_agent_task_started(w)
    \/ \E w \in Workers, res \in Outcomes : execute_agent_task_run(w, res)
    \/ \E w \in Workers : execute_agent_task_finish(w)
    \/ \E w \in Workers : execute_agent_task_done(w)
    \/ \E c \in Conns : websocket_endpoint(c)
    \/ \E c \in Conns, f \in Frames : client_send(c, f)
    \/ \E c \in Conns : client_drop(c)

SpecEndToEnd == Init /\ [][NextEndToEnd]_vars

\* the worker pool with its hard time limit and the clock: the workers run
\* whatever job they hold and take the jobs that are queued, time passes, and
\* a job may be killed at any point; the broker may hand a job out again, and
\* nothing obliges it to.  The periodic jobs of the beat schedule,
\* cleanup_old_data and update_metrics, write no task row and are no step here
NextRecovery ==
    \/ Tick
    \/ \E a \in {AgentId} : create_task(a)
    \/ \E t \in TaskIds : redeliver(t)
    \/ \E w \in Workers, t \in TaskIds : execute_agent_task_load(w, t)
    \/ \E w \in Workers : execute_agent_task_claim(w)
    \/ \E w \in Workers : execute_agent_task_started(w)
    \/ \E w \in Workers, res \in Outcomes : execute_agent_task_run(w, res)
    \/ \E w \in Workers : execute_agent_task_finish(w)
    \/ \E w \in Workers : execute_agent_task_done(w)
    \/ \E w \in Workers : task_time_limit_exceeded(w)

SpecRecovery ==
    /\ Init
    /\ [][NextRecovery]_vars
    /\ WF_vars(Tick)
    /\ \A w \in Workers :
          /\ WF_vars(\E t \in TaskIds : execute_agent_task_load(w, t))
          /\ WF_vars(execute_agent_task_claim(w))
          /\ WF_vars(execute_agent_task_started(w))
          /\ WF_vars(\E res \in Outcomes : execute_agent_task_run(w, res))
          /\ WF_vars(execute_agent_task_finish(w))
          /\ WF_vars(execute_agent_task_done(w))

\* the handlers and the worker with a broker that may be out of reach when a
\* handler calls it
NextQueue ==
    \/ \E a \in {AgentId} : create_task(a)
    \/ \E a \in {AgentId} : create_task_unavailable(a)
    \/ \E w \in Workers : Worker(w)
    \/ \E r \in Requests : cancel_task(r)
    \/ \E r \in Requests, t \in TaskIds, u \in Users :
          cancel_task_unavailable(r, t, u)

SpecQueue == Init /\ [][NextQueue]_vars

\* the real-time layer with the one event the API process broadcasts,
\* task_cancelled of cancel_task, and with calls that overlap
NextOverlap ==
    \/ \E c \in Conns : websocket_endpoint(c)
    \/ \E c \in Conns, f \in Frames : client_send(c, f)
    \/ \E c \in Conns : client_drop(c)
    \/ \E t \in TaskIds : broadcast_event("task_cancelled", t)
    \/ broadcast_send
    \/ \E t \in TaskIds : broadcast_event_overlapping("task_cancelled", t)

SpecOverlap == Init /\ [][NextOverlap]_vars

\* a task that is patched with every body while it is run and cancelled
NextUpdate ==
    \/ \E a \in {AgentId} : create_task(a)
    \/ \E w \in Workers : Worker(w)
    \/ \E r \in Requests : cancel_task(r)
    \/ \E t \in TaskIds, K \in SUBSET PatchKeys :
          \E s \in (IF "status" \in K THEN TaskStatus ELSE {PENDING}) :
             update_task(t, Body(K, s))

SpecUpdate == Init /\ [][NextUpdate]_vars

\* ------------------------------------------------------------ properties
\* the terminal statuses
Terminal == {COMPLETED, FAILED, CANCELLED}

\* the edges of the task state machine
LegalEdges ==
    {<<PENDING, RUNNING>>, <<PENDING, CANCELLED>>, <<RUNNING, CANCELLED>>,
     <<RUNNING, COMPLETED>>, <<RUNNING, FAILED>>}

\* request r has committed CANCELLED
Committed(r) ==
    req[r].pc \in {"committed", "refreshed"} \/ req[r].code = 200

\* request r takes its first step, the locking select
Selects(r) ==
    req[r].pc = "idle" /\ req'[r].pc # "idle"

\* a step that writes no task row, revokes no job and broadcasts no event
NoEffect ==
    /\ tasks' = tasks
    /\ revoked' = revoked
    /\ revokes' = revokes
    /\ broadcasts' = broadcasts

\* C1: when a worker's claim and a cancel_task that finds the task PENDING
\* run concurrently, the task ends in a terminal status once both are
\* through, and the events broadcast for it never hold both task_cancelled
\* and task_completed
C1_RaceOneOutcome ==
    \A t \in DOMAIN tasks :
        /\ (\E r \in Requests :
               req[r].task = t /\ req[r].from = PENDING /\ Committed(r))
           => ~(broadcasts[t]["task_cancelled"] > 0
                /\ broadcasts[t]["task_completed"] > 0)
        /\ (/\ \E r \in Requests : req[r].task = t /\ req[r].code = 200
            /\ \A w \in Workers : wpc[w] = "idle"
            /\ queue[t] = 0)
           => tasks[t].status \in Terminal

\* C2: once cancel_task has committed CANCELLED for a task that was RUNNING,
\* no later step overwrites the status with COMPLETED or FAILED
C2_CancelledStays ==
    [][\A t \in DOMAIN tasks :
          (/\ tasks[t].status = CANCELLED
           /\ \E r \in Requests :
                 req[r].task = t /\ req[r].from = RUNNING /\ Committed(r))
          => tasks'[t].status \notin {COMPLETED, FAILED}]_vars

\* C3: a worker that is handed the job of a task cancelled while PENDING
\* (status CANCELLED, no job handle) abandons it: its next step returns and
\* the row stays as it is, CANCELLED with a null celery_task_id, and the
\* execution engine is never invoked for a task cancelled that way
C3_CancelledPendingAbandoned ==
    [][\A w \in Workers :
          (/\ wpc[w] = "loaded"
           /\ wtask[w].status = CANCELLED
           /\ wtask[w].celery_task_id = NULL
           /\ wpc'[w] # "loaded")
          => /\ wpc'[w] = "idle"
             /\ tasks' = tasks
             /\ broadcasts' = broadcasts
             /\ executions' = executions]_vars

\* C4: a task's status changes only along the legal edges
C4_LegalEdgesOnly ==
    [][\A t \in DOMAIN tasks :
          tasks'[t].status # tasks[t].status
          => <<tasks[t].status, tasks'[t].status>> \in LegalEdges]_vars

\* C5: completed_at is set if and only if the status is terminal
C5_CompletedAtIffTerminal ==
    \A t \in DOMAIN tasks :
        (tasks[t].completed_at # NULL) <=> (tasks[t].status \in Terminal)

\* C6: of all cancel_task calls on a task at most one succeeds, and at most
\* one task_cancelled event is ever broadcast for the task
C6_CancelOnce ==
    \A t \in DOMAIN tasks :
        /\ Cardinality({r \in Requests :
                           req[r].task = t /\ Committed(r)}) <= 1
        /\ broadcasts[t]["task_cancelled"] <= 1

\* C7: cancel_task on an unknown id answers 404, on a task in a terminal
\* status it answers 400 naming the status it reads; neither step of such a
\* call writes a task field, revokes a job or broadcasts an event
C7_CancelRejected ==
    [][\A r \in Requests :
          /\ (Selects(r) /\ req'[r].task \notin DOMAIN tasks)
             => req'[r].pc = "done" /\ req'[r].code = 404 /\ NoEffect
          /\ (Selects(r) /\ req'[r].task \in DOMAIN tasks
                /\ tasks[req'[r].task].status \in Terminal)
             => req'[r].pc = "check" /\ req'[r].code = 0 /\ NoEffect
          /\ (req[r].pc = "check" /\ req'[r] # req[r])
             => /\ req'[r].pc = "done"
                /\ req'[r].code = 400
                /\ req'[r].detail = tasks[req[r].task].status
                /\ NoEffect]_vars

C7_Witness ==
    \E r1, r2 \in Requests :
        /\ req[r1].pc = "done" /\ req[r1].code = 404
        /\ req[r2].pc = "done" /\ req[r2].code = 400
        /\ req[r2].detail = CANCELLED

\* C8: a cancel_task call by an authorized requester on a PENDING or RUNNING
\* task returns the task with status CANCELLED and completed_at set, and
\* broadcasts one task_cancelled event, after the commit
C8_CancelReturnsCancelled ==
    \A r \in Requests :
        /\ req[r].pc = "refreshed" \/ req[r].code = 200
           => req[r].status = CANCELLED /\ req[r].completed_at # NULL
        /\ req[r].task \in DOMAIN tasks
           => broadcasts[req[r].task]["task_cancelled"]
                 <= Cardinality({q \in Requests :
                                    req[q].task = req[r].task /\ Committed(q)})

\* C9: a requester who fails the ownership check on a cancellable task gets
\* 403, and that step writes no task field, revokes no job and broadcasts no
\* event
C9_ForbiddenNoMutation ==
    [][\A r \in Requests :
          (/\ Selects(r)
           /\ req'[r].task \in DOMAIN tasks
           /\ tasks[req'[r].task].status \in {PENDING, RUNNING}
           /\ req'[r].user = "noemail")
          => req'[r].pc = "done" /\ req'[r].code = 403 /\ NoEffect]_vars

C9_Witness ==
    \E r \in Requests :
        /\ req[r].pc = "done" /\ req[r].code = 403
        /\ tasks[req[r].task].status = RUNNING
        /\ tasks[req[r].task].completed_at = NULL
        /\ revokes[JobId(req[r].task)] = 0

\* C10: the committing step of cancel_task issues exactly one revoke, for the
\* task's celery_task_id, when that id is set and none when it is null; no
\* other step issues a revoke
C10_RevokeIffHandle ==
    [][/\ \A r \in Requests :
             (Selects(r) /\ req'[r].pc = "committed")
             => LET h == tasks[req'[r].task].celery_task_id IN
                    IF h # NULL
                    THEN revokes' = [revokes EXCEPT ![h] = @ + 1]
                    ELSE revokes' = revokes
       /\ (\A r \in Requests : ~(Selects(r) /\ req'[r].pc = "committed"))
          => revokes' = revokes]_vars

C10_Witness ==
    \E r \in Requests :
        /\ req[r].code = 200
        /\ req[r].from = RUNNING
        /\ revokes[JobId(req[r].task)] = 1

\* the connection is authenticated and its transport is up
Live(c) ==
    ws[c].state = "authenticated" /\ ~ws[c].dropped

\* the manager m holds the connection in its live set or in a subscription
Registered(m, c) ==
    \/ c \in m.active_connections
    \/ \E e \in DOMAIN m.subscriptions : c \in m.subscriptions[e]

\* some broadcast event is among the messages q
HasEvent(q) ==
    \E i \in DOMAIN q : q[i].type = "event"

\* the messages of q' that q did not hold yet
Added(c) ==
    {outbox'[c][i] : i \in DOMAIN outbox'[c] \ DOMAIN outbox[c]}

\* this step, the endpoint of connection c reads the text f
Reads(c, f) ==
    /\ ws[c].inbox # <<>>
    /\ Head(ws[c].inbox) = f
    /\ ws'[c].inbox = Tail(ws[c].inbox)

\* C11: when a worker completes a task, every authenticated connection that
\* is subscribed to task_completed is sent exactly one task_completed event
\* for it, and no connection is sent an event of a topic it is not subscribed
\* to
C11_SubscriberGetsCompleted ==
    [][\A t \in TaskIds, c \in Conns :
          /\ (/\ broadcasts'[t]["task_completed"]
                    # broadcasts[t]["task_completed"]
              /\ Live(c)
              /\ c \in Subscribers("api", "task_completed"))
             => outbox'[c] = Append(outbox[c], Event("task_completed", t))
          /\ \A e \in EventTypes :
                c \notin Subscribers("api", e) => Event(e, t) \notin Added(c)]_vars

\* C12: the success path end to end: a created task is PENDING; the claim
\* leaves it RUNNING with started_at set; after the engine returned success
\* the task is COMPLETED with its output set, the agent's tasks_completed is
\* larger by one and tasks_failed is unchanged; and the subscribed connection
\* is sent the task_completed event carrying the task id
C12_SuccessPath ==
    [][/\ \A t \in DOMAIN tasks' \ DOMAIN tasks : tasks'[t].status = PENDING
       /\ \A w \in Workers :
             LET t == wjob[w]
                 a == wtask[w].agent_id
             IN /\ (wpc[w] = "loaded" /\ wpc'[w] = "claimed")
                   => /\ tasks'[t].status = RUNNING
                      /\ tasks'[t].started_at # NULL
                /\ (wpc[w] = "executed" /\ wresult[w] = "success"
                       /\ wpc'[w] = "finished")
                   => /\ tasks'[t].status = COMPLETED
                      /\ tasks'[t].output_data # NoData
                      /\ agents'[a].tasks_completed
                            = agents[a].tasks_completed + 1
                      /\ agents'[a].tasks_failed = agents[a].tasks_failed
                /\ (wpc[w] = "finished" /\ wresult[w] = "success"
                       /\ wpc'[w] = "idle")
                   => \A c \in Conns :
                         (Live(c)
                             /\ c \in Subscribers("api", "task_completed"))
                         => Event("task_completed", t) \in Added(c)]_vars

\* C13: a connection that was accepted and has sent nothing when
\* AUTH_TIMEOUT_SECONDS have passed is eventually closed, and a connection
\* that is not authenticated is never sent a broadcast event
C13_HandshakeTimeout ==
    /\ \A c \in Conns :
          (/\ ws[c].state = "connected"
           /\ ws[c].frames = 0
           /\ ws[c].waited = AUTH_TIMEOUT_SECONDS)
          ~> (ws[c].state = "closed")
    /\ [](\A c \in Conns :
             ws[c].state = "connected" => ~HasEvent(outbox[c]))

\* C14: a connection becomes authenticated only on a first message with a
\* valid token, only authenticated connections are in the live set or in a
\* subscription set, and a connection that is not authenticated yet is in
\* neither and has been sent no broadcast event
C14_OnlyAuthenticatedRegistered ==
    [][\A c \in Conns :
          /\ (ws[c].state # "authenticated" /\ ws'[c].state = "authenticated")
             => /\ ws[c].state = "connected"
                /\ ws[c].inbox # <<>>
                /\ Head(ws[c].inbox).token = GoodToken
          /\ Registered(manager'["api"], c) => ws'[c].state = "authenticated"
          /\ ws'[c].state \in {"new", "connected"}
             => ~HasEvent(outbox'[c])]_vars

C14_Witness ==
    \E c, d \in Conns :
        /\ ws[c].state = "connected"
        /\ ws[c].inbox # <<>>
        /\ Head(ws[c].inbox).action = "subscribe"
        /\ outbox[c] = <<>>
        /\ d \in manager["api"].active_connections
        /\ HasEvent(outbox[d])

\* a first message the handshake accepts
Valid(f) ==
    /\ f.size <= MAX_MESSAGE_SIZE
    /\ f.json
    /\ f.action = "authenticate"
    /\ f.token = GoodToken

C16_ReAuthenticateNoOp ==
    [][\A c \in Conns, f \in SmallFrames :
          (Live(c) /\ f.json /\ f.action = "authenticate" /\ Reads(c, f))
          => /\ ws'[c].state = "authenticated"
             /\ ws'[c].close_code = ws[c].close_code
             /\ manager' = manager
             /\ outbox'[c]
                   = Append(outbox[c], Status("already_authenticated"))]_vars

C16_Witness ==
    \E c \in Conns :
        /\ Live(c)
        /\ c \in Subscribers("api", "task_completed")
        /\ outbox[c] = <<Status("authenticated"), Status("subscribed"),
                         Status("already_authenticated")>>

\* C17: a ping on an authenticated connection is answered with one pong to
\* that connection; no other connection is sent anything, and the manager
\* and the tasks are left as they were
C17_PingPong ==
    [][\A c \in Conns, f \in SmallFrames :
          (Live(c) /\ f.json /\ f.action = "ping" /\ Reads(c, f))
          => /\ outbox' = [outbox EXCEPT ![c] = Append(@, Status("pong"))]
             /\ manager' = manager
             /\ tasks' = tasks
             /\ ws'[c].state = "authenticated"]_vars

C17_Witness ==
    \E c \in Conns :
        /\ Live(c)
        /\ c \in Subscribers("api", "task_cancelled")
        /\ outbox[c] = <<Status("authenticated"), Status("subscribed"),
                         Status("pong")>>

C19_FailedSendContained ==
    [][(bc.pc = "sending" /\ bc'.pc = "idle" /\ bc'.disconnected # {})
       => /\ bc'.snapshot \subseteq bc'.visited
          /\ \A c \in bc'.disconnected : ~Registered(manager'["api"], c)]_vars

\* C20: the agent's counters grow once per task: tasks_completed plus
\* tasks_failed never exceeds the number of the agent's tasks
C20_CountedOnce ==
    \A a \in DOMAIN agents :
        agents[a].tasks_completed + agents[a].tasks_failed
           <= Cardinality({t \in DOMAIN tasks : tasks[t].agent_id = a})

C22_RedeliveryNotRestarted ==
    [][\A w \in Workers :
          (/\ wpc[w] = "loaded"
           /\ executions[wjob[w]] > 0
           /\ wtask[w].status \in {RUNNING} \cup Terminal
           /\ wpc'[w] # "loaded")
          => /\ wpc'[w] = "idle"
             /\ tasks' = tasks
             /\ broadcasts' = broadcasts
             /\ executions' = executions]_vars

\* C23: a worker's write changes the status of its task only when the row
\* still has the status the worker observed when it loaded it, so that of
\* the operations that start from one observed status at most one succeeds
C23_TransitionsLinearizable ==
    [][\A w \in Workers :
          (/\ wpc[w] \in {"loaded", "executed"}
           /\ wpc'[w] # wpc[w]
           /\ tasks'[wjob[w]].status # tasks[wjob[w]].status)
          => tasks[wjob[w]].status = wtask[w].status]_vars

\* C24: in either process every connection of a subscription set is in the
\* live set, and a connection whose endpoint has ended is in no set of the
\* manager
C24_NoDanglingSubscription ==
    /\ \A p \in Processes :
          \A e \in DOMAIN manager[p].subscriptions :
             manager[p].subscriptions[e] \subseteq manager[p].active_connections
    /\ \A c \in Conns :
          ws[c].state = "closed" => ~Registered(manager["api"], c)

C24_Witness ==
    \E c \in Conns :
        /\ bc.pc = "idle"
        /\ bc.outcome = "returned"
        /\ c \in bc.disconnected
        /\ ws[c].state = "authenticated"
        /\ ws[c].inbox # <<>>
        /\ Head(ws[c].inbox).action = "subscribe"
        /\ ~Registered(manager["api"], c)

\* C25: no broadcast ends with the error of a set that changed under its
\* iteration
C25_NoTornSet ==
    bc.outcome # "raised"

\* the event that announces a status
EventOf(status) ==
    CASE status = RUNNING -> "task_started"
      [] status = COMPLETED -> "task_completed"
      [] status = FAILED -> "task_failed"
      [] status = CANCELLED -> "task_cancelled"

\* the run of worker w makes a step that leaves the position pc
Leaves(w, pc) ==
    wpc[w] = pc /\ wpc'[w] # pc

\* C26: every status a worker's run commits is announced by one broadcast of
\* the matching event before the run goes on or ends: the step that commits
\* FAILED for a missing agent broadcasts task_failed, the step after the
\* claim broadcasts task_started, and the step after the terminal commit
\* broadcasts the event of the committed status
C26_OneBroadcastPerTransition ==
    [][\A w \in Workers :
          LET t == wjob[w]
              Once(e) == broadcasts' = [broadcasts EXCEPT ![t][e] = @ + 1]
          IN /\ (Leaves(w, "loaded") /\ tasks'[t].status # tasks[t].status)
                => \/ wpc'[w] = "claimed"
                   \/ Once(EventOf(tasks'[t].status))
             /\ Leaves(w, "claimed") => Once(EventOf(RUNNING))
             /\ Leaves(w, "finished")
                => Once(EventOf(wtask[w].status))]_vars

\* C27: the error text stored with a task is sanitized: it is a text that
\* sanitize_error_for_client gives back, never the raw text of an exception
C27_ErrorSanitized ==
    \A t \in DOMAIN tasks :
        tasks[t].error_message # NoText
        => /\ tasks[t].error_message
                 = sanitize_error_for_client(tasks[t].error_message)
           /\ tasks[t].error_message \notin Sensitive

\* C28: the commit by which a worker ends a run leaves the task with
\* completed_at and execution_time_seconds set, whatever the engine gave
C28_ExecutionSecondsSet ==
    [][\A w \in Workers :
          (Leaves(w, "executed") /\ wpc'[w] = "finished")
          => /\ tasks'[wjob[w]].completed_at # NULL
             /\ tasks'[wjob[w]].execution_time_seconds # NoSeconds]_vars

\* C29: celery_task_id is set only while the task is RUNNING
C29_JobHandleOnlyRunning ==
    \A t \in DOMAIN tasks :
        tasks[t].celery_task_id # NULL => tasks[t].status = RUNNING

\* C30: started_at and completed_at are written once: no step changes one
\* of them after it has been set
C30_TimestampsOnce ==
    [][\A t \in DOMAIN tasks :
          /\ tasks[t].started_at # NULL
             => tasks'[t].started_at = tasks[t].started_at
          /\ tasks[t].completed_at # NULL
             => tasks'[t].completed_at = tasks[t].completed_at]_vars

\* C31: a RUNNING task has started_at set, a task with started_at set is
\* RUNNING or terminal, and a task that cancel_task found PENDING and
\* cancelled has no started_at
C31_StartedAtIffRan ==
    /\ \A t \in DOMAIN tasks :
          /\ tasks[t].status = RUNNING => tasks[t].started_at # NULL
          /\ tasks[t].started_at # NULL
             => tasks[t].status \in {RUNNING} \cup Terminal
    /\ \A r \in Requests :
          (Committed(r) /\ req[r].from = PENDING)
          => tasks[req[r].task].started_at = NULL

\* C32: error_message is set only on a FAILED task, output_data is set only
\* on a COMPLETED or FAILED task, and output_data is written at most once:
\* no step changes it after it has been set
C32_ErrorAndOutput ==
    /\ [](\A t \in DOMAIN tasks :
             /\ tasks[t].error_message # NoText => tasks[t].status = FAILED
             /\ tasks[t].output_data # NoData
                => tasks[t].status \in {COMPLETED, FAILED})
    /\ [][\A t \in DOMAIN tasks :
             tasks[t].output_data # NoData
             => tasks'[t].output_data = tasks[t].output_data]_vars

\* C33: a commit that increments tasks_completed or tasks_failed of an agent
\* also sets the agent's last_active to the time of the commit
C33_LastActiveWithCounter ==
    [][\A a \in DOMAIN agents \cap DOMAIN agents' :
          (\/ agents'[a].tasks_completed # agents[a].tasks_completed
           \/ agents'[a].tasks_failed # agents[a].tasks_failed)
          => agents'[a].last_active = now]_vars

\* C34: when the engine call of a run that nobody revoked raised, the run's
\* next step commits FAILED for the task, the step after it broadcasts
\* task_failed once, and only then the run ends: it returns its failure value
C34_ExceptionContained ==
    [][\A w \in Workers :
          (wresult[w] = "exception" /\ JobId(wjob[w]) \notin revoked)
          => /\ Leaves(w, "executed")
                => /\ wpc'[w] = "finished"
                   /\ tasks'[wjob[w]].status = FAILED
             /\ Leaves(w, "finished")
                => /\ wpc'[w] = "idle"
                   /\ broadcasts' = [broadcasts EXCEPT
                                        ![wjob[w]]["task_failed"] = @ + 1]]_vars

\* C35: every task that is RUNNING eventually has a terminal status, also
\* when the job that claimed it was killed before its terminal write
C35_RunningEventuallyTerminal ==
    \A t \in TaskIds :
        (t \in DOMAIN tasks /\ tasks[t].status = RUNNING)
        ~> (t \in DOMAIN tasks /\ tasks[t].status \in Terminal)

\* C36: a failure of the queue is answered with an error the caller can tell
\* from other failures and retry on (503, not the 500 of an unhandled error),
\* and no committed task is PENDING without a job ever having been enqueued
\* for it
C36_QueueFailureSurfaced ==
    /\ \A t \in DOMAIN tasks :
          tasks[t].status = PENDING => deliveries[t] > 0
    /\ \A i \in DOMAIN created : created[i].code # 500
    /\ \A r \in Requests : req[r].code # 500

\* what manager m holds of connection d: whether it is in the live set, and
\* the event types it is subscribed to
Memberships(m, d) ==
    [live |-> d \in m.active_connections,
     topics |-> {e \in DOMAIN m.subscriptions : d \in m.subscriptions[e]}]

\* C37: the step by which the endpoint of a connection ends, after a
\* violation in its first message or after an error of its transport, closes
\* no other connection and changes neither the live-set membership nor the
\* subscriptions of any other connection; and a broadcast during which
\* connections were only removed ends having sent the event to every
\* connection that is still subscribed and open
C37_OnlyThatConnection ==
    [][/\ \A c \in Conns :
             (ws[c].state # "closed" /\ ws'[c].state = "closed")
             => \A d \in Conns \ {c} :
                   /\ ws'[d] = ws[d]
                   /\ outbox'[d] = outbox[d]
                   /\ Memberships(manager'["api"], d)
                         = Memberships(manager["api"], d)
       /\ (/\ bc.pc = "sending"
           /\ bc'.pc = "idle"
           /\ Subscribers("api", bc.event_type) \subseteq bc.snapshot)
          => \A d \in Subscribers("api", bc.event_type) :
                CanSend(d) => d \in bc'.visited]_vars

\* C38: the events of one task reach a connection in the order of their
\* broadcasts: a broadcast never sends its event to a connection that a
\* broadcast called after it has already sent an event of the same task to
C38_BroadcastOrder ==
    [][(/\ bc.pc = "sending"
        /\ bc' # bc
        /\ outbox'[bc.cur]
              = Append(outbox[bc.cur], Event(bc.event_type, bc.task)))
       => bc.cur \notin bc.later]_vars

\* the number of events in the messages sent to connection c
Events(c) ==
    Cardinality({i \in DOMAIN outbox[c] : outbox[c][i].type = "event"})

\* C39: a connection is sent at most one copy of an event, however often it
\* subscribed: it never holds more events than were broadcast; and a
\* broadcast sends its event only to connections that were subscribed when
\* it was called, never to one that subscribed later
C39_AtMostOnceNoReplay ==
    /\ [](\A c \in Conns : Events(c) <= BroadcastCalls)
    /\ [][(/\ bc.pc = "sending"
           /\ bc' # bc
           /\ outbox'[bc.cur]
                 = Append(outbox[bc.cur], Event(bc.event_type, bc.task)))
          => bc.cur \in bc.snapshot]_vars

====
